---- MODULE Spec2Model ----
(***************************************************************************)
(* A model of switchmate.py: the sign() hash of the signing engine, the    *)
(* notification dispatcher, and the scan / status / auth / switch flows of  *)
(* the command line driver, talking to a BLE stack (bluepy) that is the     *)
(* environment.                                                             *)
(*                                                                          *)
(* Integers.  Python integers are unbounded, TLC's are 32 bit, so an        *)
(* integer of sign() is a little-endian sequence of 16-bit limbs ("word").  *)
(* ctypes.c_int64(v).value is the signed reading of a 64-bit word; every    *)
(* operation sign() applies to it afterwards (`*` followed by `& 2^64-1`,   *)
(* `^` with a non-negative int, `& 0xffffffff`) acts on the two's           *)
(* complement bits, so the 4-limb word is the value.                        *)
(***************************************************************************)
EXTENDS Integers, Sequences, FiniteSets, TLC

\* ---------------------------------------------------------------- bounds
MaxData == 3        \* longest data argument of sign
MaxKey == 2         \* longest key argument of sign
MaxPayload == 4     \* longest notification payload
MaxWaits == 2       \* wait slices that may elapse before the model stops counting
MaxDevices == 2     \* devices a scan returns
MaxFields == 2      \* advertisement fields of one scanned device
MaxEvents == 3      \* discovery events delivered during one status scan

\* ------------------------------------------------------ program constants
AUTH_NOTIFY_HANDLE == 23
AUTH_HANDLE == 22
STATE_HANDLE == 43
STATE_NOTIFY_HANDLE == 44
TOGGLE_STATE_HANDLE == 48
BATTERY_HANDLE == 16
SERVICES_AD_TYPE == 7
AD_TYPE_UUID == 7
AD_TYPE_SERVICE_DATA == 22
FNV_MULTIPLIER == 1000003

SWITCHMATE_SERVICE == "abd0f555eb40e7b2ac49ddeb83d32ba2"
NOTIFY_VALUE == <<1, 0>>
AUTH_INIT_VALUE == <<0, 0, 0, 0, 1, 0>>

None == "None"

\* the exit status of a process that has not exited
Running == 0 - 1

\* ------------------------------------------------------- integers as words
LimbBase == 2^16

RECURSIVE BitOp(_, _, _, _)
\* Python's bitwise ^, & and | on two non-negative ints below 2^n, bit by bit.
BitOp(op, a, b, n) ==
  IF n = 0 THEN 0
  ELSE LET x == a % 2
           y == b % 2
           bit == CASE op = "xor" -> (x + y) % 2
                    [] op = "and" -> x * y
                    [] op = "or"  -> IF x + y > 0 THEN 1 ELSE 0
       IN  bit + 2 * BitOp(op, a \div 2, b \div 2, n - 1)

Limb(w, i) == IF i <= Len(w) THEN w[i] ELSE 0

\* a bitwise operation on two non-negative Python ints of any size
WordOp(op, a, b) ==
  LET n == IF Len(a) >= Len(b) THEN Len(a) ELSE Len(b)
  IN  [i \in 1..n |-> BitOp(op, Limb(a, i), Limb(b, i), 16)]

RECURSIVE MulFrom(_, _, _, _)
\* w[i..] * k + carry, limb by limb (k < 2^15), the final carry appended
MulFrom(w, k, i, carry) ==
  IF i > Len(w) THEN <<carry>>
  ELSE LET t == w[i] * k + carry
       IN  <<t % LimbBase>> \o MulFrom(w, k, i + 1, t \div LimbBase)

RECURSIVE AddFrom(_, _, _, _)
AddFrom(a, b, i, carry) ==
  IF i > Len(a) /\ i > Len(b) THEN <<carry>>
  ELSE LET t == Limb(a, i) + Limb(b, i) + carry
       IN  <<t % LimbBase>> \o AddFrom(a, b, i + 1, t \div LimbBase)

\* the exact product of the non-negative int w and the int m < 2^31
MulExact(w, m) ==
  AddFrom(MulFrom(w, m % LimbBase, 1, 0),
          <<0>> \o MulFrom(w, m \div LimbBase, 1, 0), 1, 0)

\* v << bits
ShiftLeft(w, bits) ==
  [i \in 1..(bits \div 16) |-> 0] \o MulFrom(w, 2^(bits % 16), 1, 0)

\* v & 0xffffffffffffffff, as the 4 limbs of a 64-bit word
Low64(w) == [i \in 1..4 |-> Limb(w, i)]

ToWord(n) == <<n % LimbBase, n \div LimbBase>>

\* whether the int is below 2^64
FitsQ(w) == \A i \in DOMAIN w : i > 4 => w[i] = 0

\* the signed reading ctypes.c_int64 gives the word: negative when bit 63 is set
IsNegative(w) == Limb(w, 4) >= 2^15

\* -------------------------------------------------------------- sign()
\* faulty variant of c_mul: the product cut to 16 bits instead of 64
c_mul_Wrap16(a, b) == <<Limb(MulExact(b, a), 1), 0, 0, 0>>

\* lines 59-63
c_mul(a, b) == Low64(MulExact(b, a))

\* one pass of the loop body, lines 72-73
SignMix(x, c, n) ==
  LET x1 == c_mul(FNV_MULTIPLIER, x)
  IN  WordOp("xor", WordOp("xor", x1, ToWord(c)), ToWord(n))

\* faulty variant of SignSeed: the seed shifted by 8 instead of 7
SignSeed_Shift8(blob) == ShiftLeft(<<blob[1]>>, 8)

\* line 70
SignSeed(blob) == ShiftLeft(<<blob[1]>>, 7)

\* struct.pack('<Q', v): the 8 bytes of v, lowest first
PackQ(v) ==
  [i \in 1..8 |-> IF i % 2 = 1 THEN Limb(v, (i + 1) \div 2) % 256
                  ELSE Limb(v, i \div 2) \div 256]

\* faulty variant of SignCombined: the hash shifted by 8 bits instead of 16
SignCombined_Shift8(x, data) ==
  LET shifted_hash   == ShiftLeft(WordOp("and", x, <<65535, 65535>>), 8)
      shifted_data_0 == ShiftLeft(<<data[1]>>, 48)
      shifted_data_1 == ShiftLeft(<<data[2]>>, 56)
  IN  WordOp("or", WordOp("or", shifted_hash, shifted_data_0), shifted_data_1)

\* lines 76-79: the value that is packed
SignCombined(x, data) ==
  LET shifted_hash   == ShiftLeft(WordOp("and", x, <<65535, 65535>>), 16)
      shifted_data_0 == ShiftLeft(<<data[1]>>, 48)
      shifted_data_1 == ShiftLeft(<<data[2]>>, 56)
  IN  WordOp("or", WordOp("or", shifted_hash, shifted_data_0), shifted_data_1)

\* faulty variant of SignPacked: one byte dropped instead of two ([1:])
SignPacked_DropOne(x, data) ==
  LET packed == PackQ(SignCombined(x, data))
  IN  SubSeq(packed, 2, Len(packed))

\* line 79: the packing and the slice [2:]
SignPacked(x, data) ==
  LET packed == PackQ(SignCombined(x, data))
  IN  SubSeq(packed, 3, Len(packed))

\* ------------------------------------------------------------------ state
VARIABLES
  \* sign(data, key): its arguments, locals, result and position
  data, key, blob, x, idx, token, spc,
  \* the command line driver
  arguments,    \* docopt's result: cmd, <mac_address>, on, off
  pc,           \* position of the process
  exitCode,     \* the process exit status, Running until it exits
  exitAt,       \* the source line of the exit, "uncaught" for a propagated exception
  sessions,     \* addresses with an open Peripheral session
  gatt,         \* the calls issued to the BLE stack, in order
  stdout,       \* the lines printed
  dots,         \* progress indicators printed by the wait loop
  notified,     \* the notifications dispatched to handleNotification
  devices,      \* what Scanner.scan returns
  switchmates,  \* scan's result list
  seen,         \* ScanDelegate.seen
  events,       \* the discovery events delivered to handleDiscovery
  devState      \* the value each peripheral holds at its state handle


signVars == <<data, key, blob, x, idx, token, spc>>

progVars == <<arguments, pc, exitCode, exitAt, sessions, gatt, stdout, dots,
              notified, devices, switchmates, seen, events, devState>>

vars == <<signVars, progVars>>

SignBytes == {0, 1, 255}

RECURSIVE SeqsUpTo(_, _)
SeqsUpTo(S, n) ==
  IF n = 0 THEN {<<>>}
  ELSE LET shorter == SeqsUpTo(S, n - 1)
       IN  shorter \cup {Append(s, e) : s \in {t \in shorter : Len(t) = n - 1}, e \in S}

\* lines 69-70; blob[0] of an empty blob raises IndexError
SignEnter ==
  /\ spc = "call"
  /\ UNCHANGED progVars
  /\ blob' = data \o key
  /\ IF blob' = <<>>
       THEN /\ spc' = "raised"
            /\ UNCHANGED <<x, idx>>
       ELSE /\ x' = SignSeed(blob')
            /\ idx' = 1
            /\ spc' = "loop"
  /\ UNCHANGED <<data, key, token>>

\* lines 71-73, one byte of blob
SignLoop ==
  /\ spc = "loop"
  /\ UNCHANGED progVars
  /\ idx <= Len(blob)
  /\ x' = SignMix(x, blob[idx], Len(blob))
  /\ idx' = idx + 1
  /\ UNCHANGED <<data, key, blob, token, spc>>

\* lines 76-80; data[1] of a data shorter than 2 raises IndexError
SignReturn ==
  /\ spc = "loop"
  /\ UNCHANGED progVars
  /\ idx > Len(blob)
  /\ IF Len(data) < 2 \/ ~FitsQ(SignCombined(x, data))
       THEN /\ spc' = "raised"
            /\ UNCHANGED token
       ELSE /\ token' = SignPacked(x, data)
            /\ spc' = "done"
  /\ UNCHANGED <<data, key, blob, x, idx>>

SignNext == SignEnter \/ SignLoop \/ SignReturn

\* ------------------------------------------------------- text and output
HexDigits == <<"0", "1", "2", "3", "4", "5", "6", "7",
               "8", "9", "a", "b", "c", "d", "e", "f">>

RECURSIVE hexlify(_)
\* binascii.hexlify: two lower-case digits per byte
hexlify(bytes) ==
  IF bytes = <<>> THEN <<>>
  ELSE <<HexDigits[(Head(bytes) \div 16) + 1], HexDigits[(Head(bytes) % 16) + 1]>>
       \o hexlify(Tail(bytes))

UpperChar(ch) ==
  CASE ch = "a" -> "A" [] ch = "b" -> "B" [] ch = "c" -> "C"
    [] ch = "d" -> "D" [] ch = "e" -> "E" [] ch = "f" -> "F"
    [] OTHER -> ch

\* str.upper
upper(chars) == [i \in DOMAIN chars |-> UpperChar(chars[i])]

\* a printed line: its fixed text and the formatted argument that follows it
Line(text, arg) == [text |-> text, arg |-> arg]

\* a call issued to the BLE stack
Call(op, addr, handle, value, resp, ok) ==
  [op |-> op, addr |-> addr, handle |-> handle, value |-> value,
   withResponse |-> resp, ok |-> ok]

\* ------------------------------------------------- notification dispatcher
\* faulty variant of AuthKey: the slice taken one byte early (data[2:])
AuthKey_FromOffset2(payload) == SubSeq(payload, 3, Len(payload))

\* line 90: the slice data[3:]
AuthKey(payload) == SubSeq(payload, 4, Len(payload))

\* line 92: ord(data[-1]) == 0
LastByteIsZero(payload) == payload[Len(payload)] = 0

\* line 98: the argument of sys.exit
ExitStatus(succeeded) == IF succeeded THEN 0 ELSE 1

\* faulty variant of DispatchDisconnect: the disconnect left out
DispatchDisconnect_Missing(addr) == <<>>

\* line 97: device.disconnect()
DispatchDisconnect(addr) == <<Call("disconnect", addr, 0, <<>>, FALSE, TRUE)>>

\* faulty variant of ClosedBy: a disconnect that leaves the session open
ClosedBy_Nothing(calls) == {}

\* the sessions a sequence of calls closes
ClosedBy(calls) == {calls[k].addr : k \in {j \in DOMAIN calls : calls[j].op = "disconnect"}}

\* lines 87-96: what handleNotification prints, whether it raised (data[-1] of
\* an empty payload is an IndexError) and the flag it leaves in succeeded
Dispatch(handle, payload) ==
  IF handle = AUTH_HANDLE
    THEN [printed |-> <<Line("", <<>>),
                        Line("Auth key is ", upper(hexlify(AuthKey(payload))))>>,
          raised |-> FALSE, succeeded |-> TRUE]
  ELSE IF payload = <<>>
    THEN [printed |-> <<Line("", <<>>)>>, raised |-> TRUE, succeeded |-> TRUE]
  ELSE IF LastByteIsZero(payload)
    THEN [printed |-> <<Line("", <<>>), Line("Switched!", <<>>)>>,
          raised |-> FALSE, succeeded |-> TRUE]
  ELSE [printed |-> <<Line("", <<>>), Line("Switching failed!", <<>>)>>,
        raised |-> FALSE, succeeded |-> FALSE]

\* ----------------------------------------------------------------- scan()
\* faulty variant of IsSwitchmateField: the advertisement type not compared
IsSwitchmateField_AnyType(field) == field[3] = SWITCHMATE_SERVICE

\* line 153
IsSwitchmateField(field) ==
  field[1] = SERVICES_AD_TYPE /\ field[3] = SWITCHMATE_SERVICE

RECURSIVE ScanFieldLoop(_, _, _, _)
\* lines 152-155: the inner loop over one device's scan data
ScanFieldLoop(dev, fields, i, found) ==
  IF i > Len(fields) THEN found
  ELSE LET is_switchmate == IsSwitchmateField(fields[i])
           inList == \E k \in DOMAIN found : found[k] = dev
       IN  ScanFieldLoop(dev, fields, i + 1,
                         IF is_switchmate /\ ~inList THEN Append(found, dev)
                         ELSE found)

RECURSIVE ScanDeviceLoop(_, _, _)
\* lines 150-155: the outer loop over the scanned devices
ScanDeviceLoop(devs, j, found) ==
  IF j > Len(devs) THEN found
  ELSE ScanDeviceLoop(devs, j + 1,
                      ScanFieldLoop(devs[j], devs[j].scanData, 1, found))

\* lines 157-162
ScanReport(found) ==
  IF Len(found) > 0
    THEN <<Line("Found Switchmates:", <<>>)>>
         \o [k \in DOMAIN found |-> Line(found[k].addr, <<>>)]
    ELSE <<Line("No Switchmate devices found", <<>>)>>

\* ------------------------------------------------------------ the driver
\* faulty variant of ToggleValue: the two bytes exchanged
ToggleValue_Inverted(on) == IF on THEN <<0>> ELSE <<1>>

\* lines 183-186
ToggleValue(on) == IF on THEN <<1>> ELSE <<0>>

\* faulty variant of SetupWrites: auth writes the initialization value before
\* it enables notifications
SetupWrites_AuthSwapped(args) ==
  IF args.switch
    THEN <<[handle |-> STATE_NOTIFY_HANDLE, value |-> NOTIFY_VALUE, withResponse |-> TRUE],
           [handle |-> TOGGLE_STATE_HANDLE, value |-> IF args.on THEN <<1>> ELSE <<0>>,
            withResponse |-> FALSE]>>
    ELSE <<[handle |-> AUTH_HANDLE, value |-> AUTH_INIT_VALUE, withResponse |-> TRUE],
           [handle |-> AUTH_NOTIFY_HANDLE, value |-> NOTIFY_VALUE, withResponse |-> TRUE]>>

\* lines 180-190: the two writes of the operation, in program order
SetupWrites(args) ==
  IF args.switch
    THEN <<[handle |-> STATE_NOTIFY_HANDLE, value |-> NOTIFY_VALUE, withResponse |-> TRUE],
           [handle |-> TOGGLE_STATE_HANDLE, value |-> ToggleValue(args.on),
            withResponse |-> FALSE]>>
    ELSE <<[handle |-> AUTH_NOTIFY_HANDLE, value |-> NOTIFY_VALUE, withResponse |-> TRUE],
           [handle |-> AUTH_HANDLE, value |-> AUTH_INIT_VALUE, withResponse |-> TRUE]>>

Addrs == {"A", "B"}
OtherService == "0000180f00001000800000805f9b34fb"
PayloadBytes == {0, 1, 171}
StateBytes == {0, 1}
NotifyHandles == {AUTH_HANDLE, STATE_HANDLE, BATTERY_HANDLE}

\* the (adtype, description, value) triples a device may advertise
ScanFieldSet ==
  { <<SERVICES_AD_TYPE, "Complete 128b Services", SWITCHMATE_SERVICE>>,
    <<SERVICES_AD_TYPE, "Complete 128b Services", OtherService>>,
    <<AD_TYPE_SERVICE_DATA, "16b Service Data", SWITCHMATE_SERVICE>> }

\* Scanner.scan returns the values of a dictionary keyed by address: one entry
\* per address
DeviceLists ==
  UNION { { [i \in 1..n |-> [addr |-> a[i], scanData |-> f[i]]] :
              a \in {b \in [1..n -> Addrs] :
                       \A i, j \in 1..n : i # j => b[i] # b[j]},
              f \in [1..n -> SeqsUpTo(ScanFieldSet, MaxFields)] } :
          n \in 0..MaxDevices }

\* docopt's results for the four usage lines
ArgumentSets ==
  { [scan |-> TRUE, status |-> FALSE, auth |-> FALSE, switch |-> FALSE,
     mac_address |-> None, on |-> FALSE, off |-> FALSE] }
  \cup { [scan |-> FALSE, status |-> TRUE, auth |-> FALSE, switch |-> FALSE,
          mac_address |-> m, on |-> FALSE, off |-> FALSE] : m \in Addrs \cup {None} }
  \cup { [scan |-> FALSE, status |-> FALSE, auth |-> TRUE, switch |-> FALSE,
          mac_address |-> m, on |-> FALSE, off |-> FALSE] : m \in Addrs }
  \cup { [scan |-> FALSE, status |-> FALSE, auth |-> FALSE, switch |-> TRUE,
          mac_address |-> m, on |-> o[1], off |-> o[2]] :
          m \in Addrs, o \in {<<TRUE, FALSE>>, <<FALSE, TRUE>>, <<FALSE, FALSE>>} }

Init ==
  /\ data = <<>> /\ key = <<>> /\ blob = <<>> /\ x = <<>>
  /\ idx = 0 /\ token = <<>> /\ spc = "idle"
  /\ arguments \in ArgumentSets
  /\ pc = "main"
  /\ exitCode = Running
  /\ exitAt = None
  /\ sessions = {}
  /\ gatt = <<>>
  /\ stdout = <<>>
  /\ dots = 0
  /\ notified = <<>>
  /\ devices \in (IF arguments.scan THEN DeviceLists ELSE {<<>>})
  /\ switchmates = <<>>
  /\ seen = <<>>
  /\ events = <<>>
  /\ devState \in (IF arguments.status THEN [Addrs -> StateBytes]
                   ELSE {[a \in Addrs |-> 0]})

\* faulty variant of Exit: sys.exit left out, the caller carries on
Exit_Returns(code, line) == UNCHANGED <<pc, exitCode, exitAt>>

\* sys.exit(code) at the given line
Exit(code, line) ==
  /\ pc' = "exited"
  /\ exitCode' = code
  /\ exitAt' = line

\* faulty variant of Uncaught: the exception swallowed, the statement run again
Uncaught_Swallowed == UNCHANGED <<pc, exitCode, exitAt>>

\* an exception nobody catches: traceback, exit status 1
Uncaught ==
  /\ pc' = "exited"
  /\ exitCode' = 1
  /\ exitAt' = "uncaught"

\* lines 167-169 and scan(), lines 141-162
MainScan ==
  /\ pc = "main"
  /\ UNCHANGED signVars
  /\ arguments.scan
  /\ switchmates' = ScanDeviceLoop(devices, 1, <<>>)
  /\ stdout' = stdout \o <<Line("Scanning...", <<>>)>> \o ScanReport(switchmates')
  /\ Exit(0, "169")
  /\ UNCHANGED <<arguments, sessions, gatt, dots, notified, devices, seen, events,
                 devState>>

\* lines 171-172 and status(), lines 130-137: the scanner is started
MainStatus ==
  /\ pc = "main"
  /\ UNCHANGED signVars
  /\ ~arguments.scan
  /\ arguments.status
  /\ stdout' = Append(stdout, Line("Looking for switchmate status...", <<>>))
  /\ pc' = "scanning"
  /\ UNCHANGED <<arguments, exitCode, exitAt, sessions, gatt, dots, notified,
                 devices, switchmates, seen, events, devState>>

\* lines 117-126: the calls of the matching branch, up to the one that fails
DiscoveryCalls(addr, failAt) ==
  LET connect == Call("connect", addr, 0, <<>>, FALSE, failAt # "connect")
      read == Call("read", addr, STATE_HANDLE, <<>>, FALSE, failAt # "read")
      chars == Call("getCharacteristics", addr, 0, <<>>, FALSE, failAt # "chars")
  IN  CASE failAt = "connect" -> <<connect>>
        [] failAt = "read" -> <<connect, read>>
        [] OTHER -> <<connect, read, chars>>

\* faulty variant of DiscoveryPrints: the value printed is the number of
\* devices seen so far in place of the byte read from the device
DiscoveryPrints_Counted(addr, value, failAt) ==
  LET report == <<Line(addr, <<" ">> \o hexlify(<<Len(seen)>>)), Line("Scan data: ", <<>>)>>
  IN  CASE failAt \in {"connect", "read"} -> <<>>
        [] failAt = "chars" -> report
        [] OTHER -> report \o <<Line("Characteristics: ", <<>>)>>

\* lines 120-124: what the matching branch prints before the call that fails
DiscoveryPrints(addr, value, failAt) ==
  LET report == <<Line(addr, <<" ">> \o hexlify(value)), Line("Scan data: ", <<>>)>>
  IN  CASE failAt \in {"connect", "read"} -> <<>>
        [] failAt = "chars" -> report
        [] OTHER -> report \o <<Line("Characteristics: ", <<>>)>>

\* line 116
DiscoveryMatches(text) == text = SWITCHMATE_SERVICE

\* faulty variant of DiscoveryFiltered: the address argument not compared
DiscoveryFiltered_Never(addr) == FALSE

\* line 107: an address was given and the event is of another device
DiscoveryFiltered(addr) ==
  arguments.mac_address # None /\ arguments.mac_address # addr

\* ScanDelegate.handleDiscovery, lines 106-128, for one discovery event of the
\* device at addr whose AD_TYPE_UUID text is `text`.  failAt names the BLE call
\* that raises, finalized whether the interpreter has closed the session of the
\* local Peripheral by the time the handler returns (the source never
\* disconnects it).
HandleDiscovery(addr, text, failAt, finalized) ==
  /\ pc = "scanning"
  /\ UNCHANGED signVars
  /\ Len(events) < MaxEvents
  /\ events' = Append(events, <<addr, text>>)
  /\ IF DiscoveryFiltered(addr)
       THEN UNCHANGED <<pc, exitCode, exitAt, sessions, gatt, stdout, seen>>
     ELSE IF \E k \in DOMAIN seen : seen[k] = addr
       THEN UNCHANGED <<pc, exitCode, exitAt, sessions, gatt, stdout, seen>>
     ELSE /\ seen' = Append(seen, addr)
          /\ IF DiscoveryMatches(text)
               THEN /\ gatt' = gatt \o DiscoveryCalls(addr, failAt)
                    /\ stdout' = stdout \o DiscoveryPrints(addr, <<devState[addr]>>, failAt)
                    /\ sessions' = IF failAt = "connect" \/ (failAt = "none" /\ finalized)
                                     THEN sessions
                                     ELSE sessions \cup {addr}
                    /\ IF failAt # "none" THEN Uncaught
                       ELSE IF arguments.mac_address # None THEN Exit(0, "128")
                       ELSE UNCHANGED <<pc, exitCode, exitAt>>
               ELSE UNCHANGED <<pc, exitCode, exitAt, sessions, gatt, stdout>>
  /\ UNCHANGED <<arguments, dots, notified, devices, switchmates, devState>>

\* lines 138-139 and 173: the scan time is over
StatusDone ==
  /\ pc = "scanning"
  /\ UNCHANGED signVars
  /\ Exit(0, "173")
  /\ UNCHANGED <<arguments, sessions, gatt, stdout, dots, notified, devices,
                 switchmates, seen, events, devState>>

\* lines 175-178
MainConnect(ok) ==
  /\ pc = "main"
  /\ UNCHANGED signVars
  /\ ~arguments.scan
  /\ ~arguments.status
  /\ gatt' = Append(gatt, Call("connect", arguments.mac_address, 0, <<>>, FALSE, ok))
  /\ IF ok
       THEN /\ sessions' = sessions \cup {arguments.mac_address}
            /\ pc' = "write1"
            /\ UNCHANGED <<exitCode, exitAt>>
       ELSE /\ Uncaught
            /\ UNCHANGED sessions
  /\ UNCHANGED <<arguments, stdout, dots, notified, devices, switchmates, seen,
                 events, devState>>

WriteCall(w, ok) ==
  Call("write", arguments.mac_address, w.handle, w.value, w.withResponse, ok)

\* line 182 or 189: the notify-enable write
MainWriteNotify(ok) ==
  /\ pc = "write1"
  /\ UNCHANGED signVars
  /\ gatt' = Append(gatt, WriteCall(SetupWrites(arguments)[1], ok))
  /\ IF ok THEN pc' = "write2" /\ UNCHANGED <<exitCode, exitAt>>
     ELSE Uncaught
  /\ UNCHANGED <<arguments, sessions, stdout, dots, notified, devices, switchmates,
                 seen, events, devState>>

\* line 187, or lines 190-191; then line 193
MainWriteCommand(ok) ==
  /\ pc = "write2"
  /\ UNCHANGED signVars
  /\ gatt' = Append(gatt, WriteCall(SetupWrites(arguments)[2], ok))
  /\ IF ok
       THEN /\ pc' = "waiting"
            /\ stdout' = stdout
                 \o (IF arguments.switch THEN <<>>
                     ELSE <<Line("Press button on Switchmate to get auth key", <<>>)>>)
                 \o <<Line("Waiting for response", <<>>)>>
            /\ UNCHANGED <<exitCode, exitAt>>
       ELSE /\ Uncaught
            /\ UNCHANGED stdout
  /\ UNCHANGED <<arguments, sessions, dots, notified, devices, switchmates, seen,
                 events, devState>>

WaitCall == Call("wait", arguments.mac_address, 0, <<>>, FALSE, TRUE)

\* faulty variant of WaitTimeout: the loop gives up when a slice elapses
WaitTimeout_GivesUp ==
  /\ pc = "waiting"
  /\ UNCHANGED signVars
  /\ dots < MaxWaits
  /\ gatt' = Append(gatt, WaitCall)
  /\ dots' = dots + 1
  /\ Exit(1, "197")
  /\ UNCHANGED <<arguments, sessions, stdout, notified, devices, switchmates,
                 seen, events, devState>>

\* lines 194-197: a wait slice elapses with no notification
WaitTimeout ==
  /\ pc = "waiting"
  /\ UNCHANGED signVars
  /\ dots < MaxWaits
  /\ gatt' = Append(gatt, WaitCall)
  /\ dots' = dots + 1
  /\ UNCHANGED <<arguments, pc, exitCode, exitAt, sessions, stdout, notified,
                 devices, switchmates, seen, events, devState>>

\* line 195 with NotificationDelegate.handleNotification, lines 86-98, run
\* inside it: the stack delivers a notification during the wait.  The payload
\* is whatever the peripheral sent, the empty value included.  sys.exit inside
\* the handler ends the process, so the loop never sees the call return.
WaitNotification(handle, payload) ==
  LET r == Dispatch(handle, payload)
  IN  /\ pc = "waiting"
      /\ UNCHANGED signVars
      /\ notified' = Append(notified, <<handle, payload>>)
      /\ stdout' = stdout \o r.printed
      /\ IF r.raised
           THEN /\ gatt' = Append(gatt, WaitCall)
                /\ UNCHANGED sessions
                /\ Uncaught
           ELSE /\ gatt' = Append(gatt, WaitCall)
                          \o DispatchDisconnect(arguments.mac_address)
                /\ sessions' = sessions \ ClosedBy(DispatchDisconnect(arguments.mac_address))
                /\ Exit(ExitStatus(r.succeeded), "98")
      /\ UNCHANGED <<arguments, dots, devices, switchmates, seen, events, devState>>

Next ==
  \/ MainScan
  \/ MainStatus
  \/ \E addr \in Addrs, text \in {SWITCHMATE_SERVICE, OtherService, None},
        failAt \in {"none", "connect", "read", "chars"}, finalized \in BOOLEAN :
       HandleDiscovery(addr, text, failAt, finalized)
  \/ StatusDone
  \/ \E ok \in BOOLEAN : MainConnect(ok)
  \/ \E ok \in BOOLEAN : MainWriteNotify(ok)
  \/ \E ok \in BOOLEAN : MainWriteCommand(ok)
  \/ WaitTimeout
  \/ \E handle \in NotifyHandles, payload \in SeqsUpTo(PayloadBytes, MaxPayload) :
       WaitNotification(handle, payload)

Spec == Init /\ [][Next]_vars

\* lines 175-191: the statements of __main__ ahead of the wait loop; the
\* interpreter runs each of them once the one before it has returned
MainSteps ==
  \/ \E ok \in BOOLEAN : MainConnect(ok)
  \/ \E ok \in BOOLEAN : MainWriteNotify(ok)
  \/ \E ok \in BOOLEAN : MainWriteCommand(ok)

\* line 195: the stack hands a notification with a payload of at least one
\* byte to the delegate during a wait
NotificationDelivered ==
  /\ pc = "waiting"
  /\ \E handle \in NotifyHandles, payload \in SeqsUpTo(PayloadBytes, MaxPayload) \ {<<>>} :
       WaitNotification(handle, payload)

\* the driver with a peripheral that answers: the statements of __main__ are
\* run, and a notification with a non-empty payload is delivered in the end
\* if the driver stays in its wait loop
SpecFair ==
  Init /\ [][Next]_vars /\ WF_vars(MainSteps) /\ WF_vars(NotificationDelivered)

\* ------------------------------------------- sign() as a program of its own
\* sign is called by nothing in the file (line 187 keeps its call in a
\* comment): it is run here on its own, for every data and key of the bounds.
Idle == [scan |-> FALSE, status |-> FALSE, auth |-> FALSE, switch |-> FALSE,
         mac_address |-> None, on |-> FALSE, off |-> FALSE]

SignInit ==
  /\ data \in SeqsUpTo(SignBytes, MaxData)
  /\ key \in SeqsUpTo(SignBytes, MaxKey)
  /\ blob = <<>>
  /\ x = <<>>
  /\ idx = 0
  /\ token = <<>>
  /\ spc = "call"
  /\ arguments = Idle
  /\ pc = "idle" /\ exitCode = Running /\ exitAt = None /\ sessions = {}
  /\ gatt = <<>> /\ stdout = <<>> /\ dots = 0 /\ notified = <<>>
  /\ devices = <<>> /\ switchmates = <<>> /\ seen = <<>> /\ events = <<>>
  /\ devState = [a \in Addrs |-> 0]

SpecSign == SignInit /\ [][SignNext]_vars

\* ===================================================== reading the state
\* the value of one hexadecimal digit, either case
HexVal(ch) == CHOOSE v \in 0..15 : UpperChar(HexDigits[v + 1]) = UpperChar(ch)

RECURSIVE unhexlify(_)
unhexlify(chars) ==
  IF Len(chars) < 2 THEN <<>>
  ELSE <<16 * HexVal(chars[1]) + HexVal(chars[2])>> \o unhexlify(SubSeq(chars, 3, Len(chars)))

\* the outcome a printed line reports, if it reports one
IsOutcomeLine(line) == line.text \in {"Auth key is ", "Switched!", "Switching failed!"}

OutcomeOfLine(line) ==
  CASE line.text = "Auth key is " -> [tag |-> "AuthKeyCaptured", key |-> unhexlify(line.arg)]
    [] line.text = "Switched!" -> [tag |-> "SwitchSucceeded", key |-> <<>>]
    [] OTHER -> [tag |-> "SwitchFailed", key |-> <<>>]

RECURSIVE OutcomesIn(_)
OutcomesIn(lines) ==
  IF lines = <<>> THEN <<>>
  ELSE (IF IsOutcomeLine(Head(lines)) THEN <<OutcomeOfLine(Head(lines))>> ELSE <<>>)
       \o OutcomesIn(Tail(lines))

\* the outcomes the process has reported so far
Outcomes == OutcomesIn(stdout)

SwitchSucceeded == [tag |-> "SwitchSucceeded", key |-> <<>>]
SwitchFailed == [tag |-> "SwitchFailed", key |-> <<>>]
AuthKeyCaptured(k) == [tag |-> "AuthKeyCaptured", key |-> k]

\* the (handle, value, completed) triples of the writes among the first n calls
RECURSIVE WritesUpTo(_)
WritesUpTo(n) ==
  IF n = 0 THEN <<>>
  ELSE WritesUpTo(n - 1)
       \o (IF gatt[n].op = "write"
             THEN <<<<gatt[n].handle, gatt[n].value, gatt[n].ok>>>>
             ELSE <<>>)

CallsOf(op) == {k \in DOMAIN gatt : gatt[k].op = op}

IsPrefix(s, t) == Len(s) <= Len(t) /\ \A i \in DOMAIN s : s[i] = t[i]

\* the bytes of a payload from offset 3 on
FromOffset3(payload) ==
  [i \in 1..(IF Len(payload) > 3 THEN Len(payload) - 3 ELSE 0) |-> payload[i + 3]]

\* ============================================================= the claims

\* C1: every notification handed to handleNotification with a non-empty
\* payload yields exactly one outcome: on the auth handle (0x0016)
\* AuthKeyCaptured with the payload's bytes from offset 3 on as the key; on any
\* other handle SwitchSucceeded when the last byte is 0 and SwitchFailed when
\* it is not.
C1_DispatchOutcome ==
  \A k \in DOMAIN notified :
    LET handle == notified[k][1]
        payload == notified[k][2]
    IN  payload # <<>> =>
          Outcomes = <<IF handle = 22 THEN AuthKeyCaptured(FromOffset3(payload))
                       ELSE IF payload[Len(payload)] = 0 THEN SwitchSucceeded
                       ELSE SwitchFailed>>

\* an auth notification of four bytes whose key byte 0xAB has been captured
C1_Witness ==
  /\ notified = <<<<22, <<1, 0, 1, 171>>>>>>
  /\ Outcomes = <<AuthKeyCaptured(<<171>>)>>
  /\ stdout[Len(stdout)].arg = <<"A", "B">>

\* C2 (as stated): in a run of auth or switch ended by a dispatched
\* notification the exit status is 1 exactly when the outcome is SwitchFailed,
\* and 0 when it is SwitchSucceeded or AuthKeyCaptured.  Stated here for the
\* notifications of the characteristic the operation subscribed to.
C2_ExitCodeIffSwitchFailed ==
  \A k \in DOMAIN notified :
    LET handle == notified[k][1]
        armed == \/ arguments.auth /\ handle = 22
                 \/ arguments.switch /\ handle = 43
    IN  (pc = "exited" /\ armed) =>
          /\ (exitCode = 1) <=> (Outcomes = <<SwitchFailed>>)
          /\ (Outcomes # <<>> /\ Outcomes # <<SwitchFailed>>) => exitCode = 0

\* C3 (as stated): a notification on a handle the operation in flight has not
\* armed is ignored: no outcome, no disconnect, the wait loop keeps waiting.
\* Stated here for the notifications that carry a payload.
C3_UnarmedIgnored ==
  \A k \in DOMAIN notified :
    LET handle == notified[k][1]
        unarmed == \/ arguments.auth /\ handle # 22
                   \/ arguments.switch /\ handle = 22
    IN  (unarmed /\ notified[k][2] # <<>>) =>
           /\ Outcomes = <<>>
           /\ CallsOf("disconnect") = {}
           /\ arguments.mac_address \in sessions
           /\ pc = "waiting"

\* C4: once auth or switch has produced an outcome, the process has exited,
\* the session is closed, exactly one disconnect was issued, and it is the last
\* call made to the BLE stack (no read, write or wait follows it).
C4_DisconnectOnceThenExit ==
  Outcomes # <<>> =>
     /\ pc = "exited"
     /\ Cardinality(CallsOf("disconnect")) = 1
     /\ gatt[Len(gatt)].op = "disconnect"
     /\ gatt[Len(gatt)].addr = arguments.mac_address
     /\ arguments.mac_address \notin sessions

\* a failed switch: outcome reported, session closed, exit status 1
C4_Witness ==
  /\ arguments.switch
  /\ Outcomes = <<SwitchFailed>>
  /\ dots > 0
  /\ sessions = {}
  /\ exitCode = 1

\* ---------------------------------------- the reference scheme of sign
\* The scheme on 64-bit values held as 8 bytes, lowest first.  The product
\* x * m is built from the bits of m, highest first, by doubling and adding,
\* every step wrapped to 64 bits (wrap64).
RefZero == <<0, 0, 0, 0, 0, 0, 0, 0>>

RefOfByte(b) == <<b, 0, 0, 0, 0, 0, 0, 0>>

RECURSIVE RefAddFrom(_, _, _, _)
RefAddFrom(a, b, i, carry) ==
  IF i > 8 THEN <<>>
  ELSE LET t == a[i] + b[i] + carry
       IN  <<t % 256>> \o RefAddFrom(a, b, i + 1, t \div 256)

RefAdd(a, b) == RefAddFrom(a, b, 1, 0)

\* the one element of a set: TLC computes a value bound by a set once
The(S) == CHOOSE e \in S : TRUE

RECURSIVE RefTimes(_, _)
RefTimes(v, m) ==
  IF m = 0 THEN RefZero
  ELSE The({IF m % 2 = 1 THEN RefAdd(twice, v) ELSE twice :
              twice \in {RefAdd(half, half) : half \in {RefTimes(v, m \div 2)}}})

RefBit(a, j) == (a \div 2^j) % 2

RefXorByte(a, b) ==
  LET bit(j) == (RefBit(a, j) + RefBit(b, j)) % 2
  IN  bit(0) + 2 * bit(1) + 4 * bit(2) + 8 * bit(3)
      + 16 * bit(4) + 32 * bit(5) + 64 * bit(6) + 128 * bit(7)

RefOrByte(a, b) ==
  LET bit(j) == IF RefBit(a, j) + RefBit(b, j) > 0 THEN 1 ELSE 0
  IN  bit(0) + 2 * bit(1) + 4 * bit(2) + 8 * bit(3)
      + 16 * bit(4) + 32 * bit(5) + 64 * bit(6) + 128 * bit(7)

RefXor(a, b) == <<RefXorByte(a[1], b[1]), RefXorByte(a[2], b[2]),
                  RefXorByte(a[3], b[3]), RefXorByte(a[4], b[4]),
                  RefXorByte(a[5], b[5]), RefXorByte(a[6], b[6]),
                  RefXorByte(a[7], b[7]), RefXorByte(a[8], b[8])>>

RefOr(a, b) == <<RefOrByte(a[1], b[1]), RefOrByte(a[2], b[2]),
                 RefOrByte(a[3], b[3]), RefOrByte(a[4], b[4]),
                 RefOrByte(a[5], b[5]), RefOrByte(a[6], b[6]),
                 RefOrByte(a[7], b[7]), RefOrByte(a[8], b[8])>>

RECURSIVE RefHash(_, _, _)
RefHash(bytes, i, acc) ==
  IF i > Len(bytes) THEN acc
  ELSE The({RefHash(bytes, i + 1, mixed) :
              mixed \in {RefXor(RefXor(product, RefOfByte(bytes[i])),
                                RefOfByte(Len(bytes))) :
                           product \in {RefTimes(acc, 1000003)}}})

RefToken(d, k) ==
  LET bytes == d \o k
      acc == The({RefHash(bytes, 1, seed) : seed \in {RefTimes(RefOfByte(bytes[1]), 128)}})
      \* (x AND 0xffffffff) << 16
      hash == <<0, 0, acc[1], acc[2], acc[3], acc[4], 0, 0>>
      \* data[0] << 48 and data[1] << 56
      d0 == <<0, 0, 0, 0, 0, 0, d[1], 0>>
      d1 == <<0, 0, 0, 0, 0, 0, 0, d[2]>>
      packed == RefOr(RefOr(hash, d0), d1)
  IN  SubSeq(packed, 3, 8)

\* C5: for every data of at least 2 bytes and every key, sign returns, and
\* what it returns is the token of the reference scheme for (data, key): a
\* function of the two arguments alone.
C5_SignIsReference ==
  /\ (spc = "done") => (Len(data) >= 2 /\ token = RefToken(data, key))
  /\ (spc = "raised") => Len(data) < 2

\* a call with a key whose accumulator has wrapped into the negative range
C5_Witness ==
  /\ spc = "done"
  /\ Len(key) >= 1
  /\ IsNegative(x)
  /\ token = RefToken(data, key)

\* C6: for every data of at least 2 bytes and every key, the empty key
\* included, the token sign returns is exactly 6 bytes long.
C6_TokenLength ==
  (spc \in {"done", "raised"} /\ Len(data) >= 2) => (spc = "done" /\ Len(token) = 6)

\* a token of 6 bytes returned for an empty key
C6_Witness ==
  /\ spc = "done"
  /\ key = <<>>
  /\ Len(token) = 6

\* C7: auth writes 01 00 to the auth-notify handle (0x0017) and then
\* 00 00 00 00 01 00 to the auth handle (0x0016), writes to no other handle,
\* and issues no wait before both writes have completed.
C7_AuthWrites ==
  arguments.auth =>
    LET expected == << <<23, <<1, 0>>, TRUE>>, <<22, <<0, 0, 0, 0, 1, 0>>, TRUE>> >>
    IN  /\ \A n \in DOMAIN gatt :
             LET w == WritesUpTo(n)
             IN  /\ IsPrefix([i \in DOMAIN w |-> <<w[i][1], w[i][2]>>],
                             [i \in DOMAIN expected |-> <<expected[i][1], expected[i][2]>>])
                 /\ gatt[n].op = "wait" => WritesUpTo(n - 1) = expected
        /\ pc = "waiting" => WritesUpTo(Len(gatt)) = expected

\* auth in its wait loop, a wait slice elapsed, the two writes behind it
C7_Witness ==
  /\ arguments.auth
  /\ pc = "waiting"
  /\ dots > 0
  /\ Len(WritesUpTo(Len(gatt))) = 2

\* C8: switch writes 01 00 to the state-notify handle (0x002c) and then one
\* byte to the toggle-state handle (0x0030), 0x01 exactly when `on` was given
\* and 0x00 otherwise; it writes nothing else and waits only after both.
C8_SwitchWrites ==
  arguments.switch =>
    LET byte == IF arguments.on THEN 1 ELSE 0
        expected == << <<44, <<1, 0>>, TRUE>>, <<48, <<byte>>, TRUE>> >>
    IN  /\ \A n \in DOMAIN gatt :
             LET w == WritesUpTo(n)
             IN  /\ IsPrefix([i \in DOMAIN w |-> <<w[i][1], w[i][2]>>],
                             [i \in DOMAIN expected |-> <<expected[i][1], expected[i][2]>>])
                 /\ gatt[n].op = "wait" => WritesUpTo(n - 1) = expected
        /\ pc = "waiting" => WritesUpTo(Len(gatt)) = expected

\* switch on in its wait loop after writing 0x01 to the toggle-state handle
C8_Witness ==
  /\ arguments.switch
  /\ arguments.on
  /\ pc = "waiting"
  /\ dots > 0
  /\ WritesUpTo(Len(gatt))[2] = <<48, <<1>>, TRUE>>

\* the address lines scan prints under its header
ScanReported ==
  {k \in DOMAIN stdout : k > 2 /\ stdout[2].text = "Found Switchmates:"}

\* C9: scan prints an address exactly when the device's scan data holds a
\* field of type 7 whose value is the Switchmate service UUID, and prints it
\* once however many of the device's fields match.
C9_ScanReportsMatches ==
  (arguments.scan /\ pc = "exited") =>
    \A a \in Addrs :
      LET matches == \E k \in DOMAIN devices :
                        /\ devices[k].addr = a
                        /\ \E f \in DOMAIN devices[k].scanData :
                             /\ devices[k].scanData[f][1] = 7
                             /\ devices[k].scanData[f][3] = "abd0f555eb40e7b2ac49ddeb83d32ba2"
      IN  Cardinality({k \in ScanReported : stdout[k].text = a})
            = IF matches THEN 1 ELSE 0

\* a device with two matching fields reported once, beside a device whose only
\* UUID field is of another type and which is not reported
C9_Witness ==
  /\ arguments.scan
  /\ pc = "exited"
  /\ Len(devices) = 2
  /\ Len(devices[1].scanData) = 2
  /\ \A f \in 1..2 : devices[1].scanData[f][1] = 7
                     /\ devices[1].scanData[f][3] = SWITCHMATE_SERVICE
  /\ devices[2].scanData = <<<<22, "16b Service Data", SWITCHMATE_SERVICE>>>>
  /\ Cardinality(ScanReported) = 1

\* C10 (as stated): in status without an address, when the scan has run to
\* its end, every device for which some discovery event carried the
\* Switchmate service UUID was connected, had its state handle read and its
\* address and value printed, each exactly once; and the scan is what ended
\* the process.
C10_EveryMatchReportedOnce ==
  (arguments.status /\ arguments.mac_address = None /\ pc = "exited"
     /\ exitAt # "uncaught") =>
    /\ exitAt = "173"
    /\ \A a \in Addrs :
         (\E k \in DOMAIN events :
             events[k] = <<a, "abd0f555eb40e7b2ac49ddeb83d32ba2">>) =>
           /\ Cardinality({k \in CallsOf("connect") : gatt[k].addr = a}) = 1
           /\ Cardinality({k \in CallsOf("read") :
                             gatt[k].addr = a /\ gatt[k].handle = 43}) = 1
           /\ Cardinality({k \in DOMAIN stdout :
                             /\ stdout[k].text = a
                             /\ stdout[k].arg = <<" ">> \o hexlify(<<devState[a]>>)}) = 1

\* the lines status has printed for the devices it reports: address and value
StatusReported == {k \in DOMAIN stdout : stdout[k].text \in Addrs}

\* C11: in status with an address, once a discovery event of that address
\* carrying the Switchmate service UUID has been reported the process has
\* exited, that event being the last one handled and the first of its kind, so
\* at most one device is reported; and no call to the BLE stack and no entry
\* of seen is for any other address.
C11_SingleAddressStatus ==
  (arguments.status /\ arguments.mac_address # None) =>
    /\ Cardinality(StatusReported) <= 1
    /\ \A k \in StatusReported : stdout[k].text = arguments.mac_address
    /\ StatusReported # {} =>
         /\ pc = "exited"
         /\ exitAt \in {"128", "uncaught"}
         /\ events[Len(events)] = <<arguments.mac_address, SWITCHMATE_SERVICE>>
         /\ \A j \in 1..(Len(events) - 1) :
              events[j] # <<arguments.mac_address, SWITCHMATE_SERVICE>>
    /\ \A k \in DOMAIN gatt : gatt[k].addr = arguments.mac_address
    /\ \A k \in DOMAIN seen : seen[k] = arguments.mac_address

\* status A: a matching event of B is passed over, the matching event of A
\* that follows is reported and the process exits at line 128
C11_Witness ==
  /\ arguments.status
  /\ arguments.mac_address = "A"
  /\ events = <<<<"B", SWITCHMATE_SERVICE>>, <<"A", SWITCHMATE_SERVICE>>>>
  /\ seen = <<"A">>
  /\ Cardinality(StatusReported) = 1
  /\ Len(gatt) = 3
  /\ exitAt = "128"
  /\ exitCode = 0

\* the first discovery event delivered for the device at address a
FirstEventOf(a) ==
  events[CHOOSE k \in DOMAIN events :
           events[k][1] = a /\ \A j \in 1..(k - 1) : events[j][1] # a]

\* the (address, value) pairs status has printed
StatusPairs == {<<stdout[k].text, stdout[k].arg>> : k \in StatusReported}

\* C12: in status without an address the (address, value) pairs printed are
\* determined device by device: a device is printed, once, with the value it
\* holds at its state handle, exactly when its own first event carries the
\* Switchmate service UUID, whatever devices were discovered before it (a
\* failing BLE call ends the run and leaves later devices unprinted).
C12_StatusOrderIndependent ==
  (arguments.status /\ arguments.mac_address = None) =>
    LET matching == {a \in Addrs : /\ \E k \in DOMAIN events : events[k][1] = a
                                   /\ FirstEventOf(a)[2] = SWITCHMATE_SERVICE}
        expected == {<<a, <<" ">> \o hexlify(<<devState[a]>>)>> : a \in matching}
    IN  /\ StatusPairs \subseteq expected
        /\ exitAt # "uncaught" => StatusPairs = expected
        /\ Cardinality(StatusReported) = Cardinality(StatusPairs)

\* B discovered before A, the two holding different values: each is printed
\* with its own value
C12_Witness ==
  /\ arguments.status
  /\ arguments.mac_address = None
  /\ events = <<<<"B", SWITCHMATE_SERVICE>>, <<"A", SWITCHMATE_SERVICE>>>>
  /\ devState["A"] = 1
  /\ devState["B"] = 0
  /\ StatusPairs = {<<"A", <<" ", "0", "1">>>>, <<"B", <<" ", "0", "0">>>>}
  /\ pc = "exited"
  /\ exitAt = "173"

\* C13: a run of auth or switch dispatches at most one notification, prints at
\* most one outcome and issues at most one disconnect; once a notification
\* has been dispatched the process has exited with status 0 or 1, and nothing
\* changes any more.
C13_AtMostOneDispatch ==
  /\ [](/\ Len(notified) <= 1
        /\ Len(Outcomes) <= 1
        /\ Cardinality(CallsOf("disconnect")) <= 1
        /\ notified # <<>> => (pc = "exited" /\ exitCode \in {0, 1}))
  /\ [][notified # <<>> => UNCHANGED vars]_vars

\* auth ended by the one notification it dispatched, after a wait slice
C13_Witness ==
  /\ arguments.auth
  /\ Len(notified) = 1
  /\ Len(Outcomes) = 1
  /\ dots = 1
  /\ pc = "exited"
  /\ exitCode = 0

\* C14: while no notification has been delivered the wait loop stays where it
\* is: the process has not exited, the session is open, no disconnect was
\* issued and no outcome printed, one progress indicator was printed per wait
\* slice issued; another wait slice can always elapse (up to the number of
\* slices the model counts), and a step that delivers no notification is such
\* a slice and nothing else.
C14_NeverTimesOut ==
  /\ []((pc = "waiting") =>
          /\ notified = <<>>
          /\ exitCode = Running
          /\ arguments.mac_address \in sessions
          /\ CallsOf("disconnect") = {}
          /\ Outcomes = <<>>
          /\ dots = Cardinality(CallsOf("wait"))
          /\ (dots < MaxWaits => ENABLED WaitTimeout))
  /\ [][(pc = "waiting" /\ notified' = notified) =>
          /\ pc' = "waiting"
          /\ dots' = dots + 1
          /\ gatt' = Append(gatt, WaitCall)
          /\ UNCHANGED <<exitCode, exitAt, sessions, stdout>>]_vars

\* switch still waiting after two wait slices without a notification
C14_Witness ==
  /\ arguments.switch
  /\ pc = "waiting"
  /\ dots >= 2
  /\ notified = <<>>
  /\ exitCode = Running
  /\ sessions = {arguments.mac_address}

\* C15: with a peripheral that answers (SpecFair), every run of auth or switch
\* exits; and a notification with a non-empty payload is handled inside the
\* wait call that delivered it: that wait is the last one issued, the
\* disconnect follows it, the session is closed and the process has exited at
\* line 98.
C15_TerminatesOnNotification ==
  /\ (arguments.auth \/ arguments.switch) ~> (pc = "exited")
  /\ [](\A k \in DOMAIN notified :
          notified[k][2] # <<>> =>
            /\ pc = "exited"
            /\ exitAt = "98"
            /\ Len(gatt) >= 2
            /\ gatt[Len(gatt) - 1] = WaitCall
            /\ gatt[Len(gatt)].op = "disconnect"
            /\ Cardinality(CallsOf("wait")) = dots + 1
            /\ sessions = {})

\* switch on ended by a notification delivered in the first wait call
C15_Witness ==
  /\ arguments.switch
  /\ arguments.on
  /\ notified = <<<<STATE_HANDLE, <<0>>>>>>
  /\ dots = 0
  /\ Cardinality(CallsOf("wait")) = 1
  /\ sessions = {}
  /\ pc = "exited"
  /\ exitCode = 0

\* ------------------------------ sign with the product of line 72 left exact
\* the loop body with x * 1000003 in unbounded integers in place of c_mul
\* (c and n are below 2^16: the two xors reach the lowest limb only)
SignMixExact(acc, c, n) ==
  LET x1 == MulExact(acc, FNV_MULTIPLIER)
  IN  <<BitOp("xor", BitOp("xor", x1[1], c, 16), n, 16)>> \o Tail(x1)

RECURSIVE SignExactLoop(_, _, _)
SignExactLoop(bytes, i, acc) ==
  IF i > Len(bytes) THEN acc
  ELSE The({ SignExactLoop(bytes, i + 1, mixed) :
              mixed \in {SignMixExact(acc, bytes[i], Len(bytes))} })

\* the accumulator the exact iteration ends with
SignExactHash(d, k) == SignExactLoop(d \o k, 1, SignSeed(d \o k))

\* the token packed from it by lines 76-79
SignExact(d, k) == SignPacked(SignExactHash(d, k), d)

\* C16 (as stated): for every data of at least 2 bytes and every key, the
\* iteration with the product left exact yields a token different from the
\* one sign returns.  Stated here for the inputs on which c_mul does wrap,
\* those whose exact accumulator outgrows 64 bits.
C16_WrapRequired ==
  (spc = "done" /\ ~FitsQ(SignExactHash(data, key))) =>
    token # SignExact(data, key)

\* C16 (amended): for every data of at least 2 bytes and every key, the
\* iteration with the product left exact yields the very token sign returns:
\* the wraparound changes the accumulator above bit 63 only, and the token
\* keeps its low 32 bits.
C16_WrapNotObservable ==
  (spc = "done") =>
    \E h \in {SignExactHash(data, key)} :
      /\ token = SignPacked(h, data)
      /\ Low64(h) = x

\* a call whose exact accumulator has outgrown 64 bits, so that c_mul did wrap
C16_Witness ==
  /\ spc = "done"
  /\ ~FitsQ(SignExactHash(data, key))
  /\ SignExactHash(data, key) # x
  /\ token = SignExact(data, key)

\* C19: for every data of at least 2 bytes and every key sign returns, the
\* two bytes dropped from the packed value are zero, the token is the low 32
\* bits of the accumulator, lowest byte first, followed by data[0] and
\* data[1], and no bit of the shifted hash coincides with a bit of the
\* embedded data bytes.
C19_DroppedBytesZero ==
  (spc \in {"done", "raised"} /\ Len(data) >= 2) =>
    LET packed == PackQ(SignCombined(x, data))
        shifted_hash == ShiftLeft(WordOp("and", x, <<65535, 65535>>), 16)
        embedded == WordOp("or", ShiftLeft(<<data[1]>>, 48), ShiftLeft(<<data[2]>>, 56))
    IN  /\ spc = "done"
        /\ packed[1] = 0
        /\ packed[2] = 0
        /\ token = <<x[1] % 256, x[1] \div 256, x[2] % 256, x[2] \div 256,
                     data[1], data[2]>>
        /\ \A i \in 1..5 : BitOp("and", Limb(shifted_hash, i), Limb(embedded, i), 16) = 0

\* a token whose hash has its top bit set, next to the data bytes ff 01
C19_Witness ==
  /\ spc = "done"
  /\ x[2] >= 2^15
  /\ data[1] = 255
  /\ data[2] = 1
  /\ token[4] >= 128
  /\ token[5] = 255
  /\ token[6] = 1

\* C17: a call to the BLE stack that fails is the last call the process
\* issues: the error has ended the process with status 1, the call is not
\* issued again, no later call of the sequence follows it and the wait loop is
\* not entered; nothing changes afterwards.
C17_NoRetry ==
  /\ [](\A k \in DOMAIN gatt :
          ~gatt[k].ok =>
            /\ k = Len(gatt)
            /\ gatt[k].op \in {"connect", "read", "getCharacteristics", "write"}
            /\ pc = "exited"
            /\ exitAt = "uncaught"
            /\ exitCode = 1
            /\ dots = 0
            /\ notified = <<>>)
  /\ [][(\E k \in DOMAIN gatt : ~gatt[k].ok) => UNCHANGED vars]_vars

\* auth whose notify-enable write has failed: two calls issued, the write to
\* the auth handle never made
C17_Witness ==
  /\ arguments.auth
  /\ Len(gatt) = 2
  /\ gatt[1].op = "connect"
  /\ gatt[2].op = "write"
  /\ gatt[2].handle = AUTH_NOTIFY_HANDLE
  /\ ~gatt[2].ok
  /\ pc = "exited"
  /\ exitCode = 1

\* C18 (as stated): at every point of every operation at most one peripheral
\* session is open.
C18_AtMostOneSession ==
  Cardinality(sessions) <= 1
====
